---- MODULE Spec2Model ----
(***************************************************************************)
(* AutoProf: the image pipeline (Pipeline.py, class Isophote_Pipeline) and *)
(* the global initializer (Isophote_Initialize.py,                         *)
(* Isophote_Initialize_CircFit).                                           *)
(*                                                                         *)
(* Spec      : UpdatePipeline, then Process_List over a batch of images,   *)
(*             each image running Process_Image and WriteProf.             *)
(* SpecGrow  : the radius growth loop and the position-angle selection of  *)
(*             Isophote_Initialize_CircFit (lines 105-130).                *)
(* SpecEllip : the ellipticity grid search and its local refinement        *)
(*             (lines 126-139, 199).                                       *)
(***************************************************************************)
EXTENDS Integers, Sequences, FiniteSets, TLC

VARIABLES
    \* ---- Pipeline.py ----
    pipeline_functions, \* self.pipeline_functions: step name -> callable
    pipeline_steps,     \* self.pipeline_steps: list of step names
    mainpc,             \* "config" | "batch" | "finished"
    n_procs,            \* Process_List's n_procs argument
    batch,              \* Process_List: "running" | "returned" | "raised"
    pc,                 \* per image: position inside Process_Image
    dat,                \* per image: what Read_Image returned
    step,               \* per image: loop index of line 149 (1-based)
    results,            \* per image: the results dict (step name -> output)
    called,             \* per image: list positions whose function was called
    files,              \* per image: state of the .aux / .prof / mask outputs
    res,                \* per image: return code of Process_Image (-1: none)
    errlog,             \* per image: logging.error calls of Process_Image
    \* ---- Isophote_Initialize.py ----
    psf_fwhm,           \* results['psf fwhm'], pixels
    nrows,              \* len(IMG)
    bgnoise,            \* results['background noise']
    circ_ellipse_radii, \* list of radii, in fixed-point units (see Unit)
    allphase,           \* sample numbers whose coefs[2] were appended
    phasekeep,          \* sample numbers whose coefs[2] qualified
    fluxq,              \* 80th percentile of the flux of each sample
    coefs,              \* |coefs[1]|, |coefs[2]|, |coefs[3]| of the latest sample
    ipc,                \* position inside Isophote_Initialize_CircFit
    stop,               \* how the growth loop ended: "" | "noise" | "edge"
    phaseSrc,           \* the samples averaged into the position angle
    test_f2,            \* summed 2nd-harmonic loss per grid ellipticity
    ellip,              \* the ellipticity variable of lines 131-138
    res_success,        \* res.success of scipy minimize
    res_eps,            \* _x_to_eps(res.x[0])
    RR,                 \* the radii of the error estimate, in ninths of a unit
    \* ---- Pipeline.py, Process_ConfigFile ----
    cfg,                \* the imported config module c
    cpc,                \* Process_ConfigFile: "idle" | "called" | "done"
    cret                \* what Process_ConfigFile returned

pipevars == <<pipeline_functions, pipeline_steps, mainpc, n_procs, batch,
              pc, dat, step, results, called, files, res, errlog>>
growvars == <<psf_fwhm, nrows, bgnoise, circ_ellipse_radii, allphase, phasekeep,
              fluxq, coefs, ipc, stop, phaseSrc>>
ellipvars == <<test_f2, ellip, res_success, res_eps, RR>>
confvars == <<cfg, cpc, cret>>
vars == <<pipevars, growvars, ellipvars, confvars>>

\* ------------------------------------------------------------------------
\* Bounds of the model
\* ------------------------------------------------------------------------
NImg == 2       \* images in a batch
MaxProcs == 2   \* largest n_procs
MaxPSF == 2     \* largest PSF width, pixels
MaxRows == 3    \* largest len(IMG)
MaxNoise == 1   \* largest background noise
MaxSteps == 8   \* cap on the samples of one growth loop
MaxLoss == 2    \* largest summed loss of a grid ellipticity

Images == 1..NImg

\* ------------------------------------------------------------------------
\* Pipeline.py: construction
\* ------------------------------------------------------------------------
EmptyMap == [n \in {} |-> 0]

\* A dict update d.update(e): the keys of e are added or rebound.
DictUpdate(d, e) ==
    [n \in (DOMAIN d) \cup (DOMAIN e) |-> IF n \in DOMAIN e THEN e[n] ELSE d[n]]

DefaultSteps_swapped ==
    <<"background", "psf", "center", "isophoteinit", "isophotefit", "starmask",
      "checkfit", "isophoteextract">>

DefaultSteps ==
    <<"background", "psf", "center", "isophoteinit", "isophotefit", "starmask",
      "isophoteextract", "checkfit">>

DefaultFunctions ==
    [n \in {"background", "psf", "center", "isophoteinit", "isophotefit",
            "starmask", "isophoteextract", "checkfit"} |->
        CASE n = "background" -> "Background_Mode"
          [] n = "psf" -> "Calculate_PSF"
          [] n = "center" -> "Center_HillClimb"
          [] n = "isophoteinit" -> "Isophote_Initialize_CircFit"
          [] n = "isophotefit" -> "Isophote_Fit_FFT_Robust"
          [] n = "starmask" -> "Star_Mask_IRAF"
          [] n = "isophoteextract" -> "Isophote_Extract"
          [] n = "checkfit" -> "Check_Fit_IQR"]

\* Arguments callers pass to UpdatePipeline.  <<>> stands for an absent (None)
\* or empty argument: both are falsy in lines 49 and 51.
StepsNoCheck == SelectSeq(DefaultSteps, LAMBDA s : s # "checkfit")
StepsRepeat == <<"background", "psf", "background", "center">>
StepsCustom == <<"background", "deblend", "psf">>
StepUpdates == {<<>>, StepsNoCheck, StepsRepeat, StepsCustom}
FunctionUpdates == {EmptyMap, [n \in {"deblend"} |-> "user_deblend"]}

\* ------------------------------------------------------------------------
\* Images as Read_Image returns them: None, or a 2D array described by its
\* shape and the set of its non-zero pixels (row, column; 0-based).
\* ------------------------------------------------------------------------
NoImage == [readable |-> FALSE, rows |-> 0, cols |-> 0, nz |-> {}]
Array(n, m, nz) == [readable |-> TRUE, rows |-> n, cols |-> m, nz |-> nz]
Unread == [readable |-> FALSE, rows |-> -1, cols |-> -1, nz |-> {}]

ImageFiles ==
    { NoImage,
      Array(30, 30, {}),                \* all zero
      Array(30, 30, {<<15, 15>>}),      \* signal at the centre
      Array(30, 40, {<<0, 0>>}),        \* signal only in a corner
      Array(19, 19, {<<9, 9>>}) }       \* small image, signal at the centre

\* Python's a[lo:hi] on a sequence of length n: the indices selected.
PySlice(lo, hi, n) ==
    LET norm(i) == IF i < 0 THEN (IF i + n < 0 THEN 0 ELSE i + n)
                   ELSE (IF i > n THEN n ELSE i)
    IN  {i \in 0..(n - 1) : norm(lo) <= i /\ i < norm(hi)}

HalfWindow == 10

\* np.all(dat[int(len(dat)/2.)-10 : int(len(dat)/2.)+10,
\*            int(len(dat[0])/2.)-10 : int(len(dat[0])/2.)+10] == 0)
CentreBlockZero(d) ==
    LET rs == PySlice((d.rows \div 2) - HalfWindow, (d.rows \div 2) + HalfWindow, d.rows)
        cs == PySlice((d.cols \div 2) - HalfWindow, (d.cols \div 2) + HalfWindow, d.cols)
    IN  \A p \in d.nz : ~(p[1] \in rs /\ p[2] \in cs)

Corrupted_unreadableOnly(d) == ~d.readable

\* line 135: dat is None or the centre block is all zero
Corrupted(d) == (~d.readable) \/ CentreBlockZero(d)

NoFiles == [aux |-> "none", prof |-> "none", mask |-> FALSE]

\* ------------------------------------------------------------------------
\* Pipeline.py: Init
\* ------------------------------------------------------------------------
GrowIdle ==
    /\ psf_fwhm = 0 /\ nrows = 0 /\ bgnoise = 0
    /\ circ_ellipse_radii = <<>> /\ allphase = <<>> /\ phasekeep = <<>>
    /\ fluxq = <<>> /\ coefs = <<>> /\ ipc = "idle" /\ stop = "" /\ phaseSrc = <<>>

EllipIdle ==
    /\ test_f2 = <<>> /\ ellip = -1 /\ res_success = FALSE /\ res_eps = -1
    /\ RR = <<>>

\* No config file has been imported.
NoConfig == [mode |-> <<>>, functions |-> EmptyMap, steps |-> <<>>]
NotReturned == [kind |-> "none", code |-> -1]

ConfIdle == cfg = NoConfig /\ cpc = "idle" /\ cret = NotReturned

PipeIdle ==
    /\ pipeline_functions = DefaultFunctions
    /\ pipeline_steps = DefaultSteps
    /\ mainpc = "config" /\ n_procs = 1 /\ batch = "idle"
    /\ pc = [i \in Images |-> "idle"]
    /\ dat = [i \in Images |-> Unread]
    /\ step = [i \in Images |-> 0]
    /\ results = [i \in Images |-> EmptyMap]
    /\ called = [i \in Images |-> <<>>]
    /\ files = [i \in Images |-> NoFiles]
    /\ res = [i \in Images |-> -1]
    /\ errlog = [i \in Images |-> 0]

Init == PipeIdle /\ GrowIdle /\ EllipIdle /\ ConfIdle

\* ------------------------------------------------------------------------
\* UpdatePipeline (lines 48-52)
\* ------------------------------------------------------------------------
\* lines 49-50: the function table after the call
UpdatedFunctions(functions, new_pipeline_functions) ==
    IF new_pipeline_functions # EmptyMap
    THEN DictUpdate(functions, new_pipeline_functions)
    ELSE functions

\* lines 51-52: the step list after the call
UpdatedSteps(steps, new_pipeline_steps) ==
    IF new_pipeline_steps # <<>> THEN new_pipeline_steps ELSE steps

UpdatePipeline(new_pipeline_functions, new_pipeline_steps) ==
    /\ mainpc = "config"
    /\ pipeline_functions' = UpdatedFunctions(pipeline_functions, new_pipeline_functions)
    /\ pipeline_steps' = UpdatedSteps(pipeline_steps, new_pipeline_steps)
    /\ UNCHANGED <<mainpc, n_procs, batch, pc, dat, step, results, called, files,
                   res, errlog>>
    /\ UNCHANGED <<growvars, ellipvars, confvars>>

\* ------------------------------------------------------------------------
\* Process_List (lines 163-219)
\* ------------------------------------------------------------------------
\* The call: the images are zipped with their arguments and handed to
\* Pool.starmap (n_procs > 1) or to itertools.starmap (otherwise).
Process_List_Call(np) ==
    /\ mainpc = "config"
    /\ mainpc' = "batch"
    /\ n_procs' = np
    /\ batch' = "running"
    /\ UNCHANGED <<pipeline_functions, pipeline_steps, pc, dat, step,
                   results, called, files, res, errlog>>
    /\ UNCHANGED <<growvars, ellipvars, confvars>>

Running(i) == pc[i] \notin {"idle", "returned", "raised"}

\* Number of Process_Image calls that can be in progress at once.
Workers == IF n_procs > 1 THEN n_procs ELSE 1

\* An exception leaving Process_Image.  With itertools.starmap (line 213) it
\* leaves Process_List at once; in a pool worker it is kept as the task's
\* result until the parent collects it (PoolRaise).
Propagate == IF n_procs > 1 THEN batch ELSE "raised"

\* starmap hands out the tasks in list order, one per free worker.
Start(i) ==
    /\ mainpc = "batch" /\ batch = "running"
    /\ pc[i] = "idle"
    /\ \A j \in Images : j < i => pc[j] # "idle"
    /\ Cardinality({j \in Images : Running(j)}) < Workers
    /\ pc' = [pc EXCEPT ![i] = "read"]
    /\ UNCHANGED <<pipeline_functions, pipeline_steps, mainpc, n_procs,
                   batch, dat, step, results, called, files, res, errlog>>
    /\ UNCHANGED <<growvars, ellipvars, confvars>>

\* ------------------------------------------------------------------------
\* Process_Image (lines 110-161)
\* ------------------------------------------------------------------------
\* lines 132-146: read the image, check it, start the pipeline
ReadImage(i, d) ==
    /\ mainpc = "batch" /\ batch = "running"
    /\ pc[i] = "read"
    /\ dat' = [dat EXCEPT ![i] = d]
    /\ IF Corrupted(d)
       THEN /\ errlog' = [errlog EXCEPT ![i] = @ + 1]
            /\ res' = [res EXCEPT ![i] = 1]
            /\ pc' = [pc EXCEPT ![i] = "returned"]
            /\ UNCHANGED <<step, results>>
       ELSE /\ pc' = [pc EXCEPT ![i] = "steps"]
            /\ step' = [step EXCEPT ![i] = 1]
            /\ results' = [results EXCEPT ![i] = EmptyMap]
            /\ UNCHANGED <<errlog, res>>
    /\ UNCHANGED <<pipeline_functions, pipeline_steps, mainpc, n_procs,
                   batch, called, files>>
    /\ UNCHANGED <<growvars, ellipvars, confvars>>

\* results[self.pipeline_steps[step]] = <output of the step at position k>.
\* An output is identified by the list position of the step that produced it.
StoreResult(r, k) == DictUpdate(r, [n \in {pipeline_steps[k]} |-> k])

NextStep_skip(k) == k + 2

\* for step in range(len(self.pipeline_steps))
NextStep(k) == k + 1

\* lines 149-151: one iteration of the loop.  The lookup of the step's function
\* raises KeyError for an unbound name; the function itself returns or raises.
RunStep(i, ok) ==
    /\ mainpc = "batch" /\ batch = "running"
    /\ pc[i] = "steps"
    /\ step[i] <= Len(pipeline_steps)
    /\ IF pipeline_steps[step[i]] \notin DOMAIN pipeline_functions
       THEN /\ pc' = [pc EXCEPT ![i] = "raised"]
            /\ batch' = Propagate
            /\ UNCHANGED <<step, results, called>>
       ELSE /\ called' = [called EXCEPT ![i] = Append(@, step[i])]
            /\ IF ok
               THEN /\ results' = [results EXCEPT ![i] = StoreResult(@, step[i])]
                    /\ step' = [step EXCEPT ![i] = NextStep(@)]
                    /\ UNCHANGED <<pc, batch>>
               ELSE /\ pc' = [pc EXCEPT ![i] = "raised"]
                    /\ batch' = Propagate
                    /\ UNCHANGED <<step, results>>
    /\ UNCHANGED <<pipeline_functions, pipeline_steps, mainpc, n_procs,
                   dat, files, res, errlog>>
    /\ UNCHANGED <<growvars, ellipvars, confvars>>

\* lines 156-158: the loop is over, WriteProf is called
CallWriteProf(i) ==
    /\ mainpc = "batch" /\ batch = "running"
    /\ pc[i] = "steps"
    /\ step[i] > Len(pipeline_steps)
    /\ pc' = [pc EXCEPT ![i] = "aux"]
    /\ UNCHANGED <<pipeline_functions, pipeline_steps, mainpc, n_procs,
                   batch, dat, step, results, called, files, res, errlog>>
    /\ UNCHANGED <<growvars, ellipvars, confvars>>

\* ------------------------------------------------------------------------
\* WriteProf (lines 54-108)
\* ------------------------------------------------------------------------
\* The step results lines 70-79 read, in the order they are read.
\* results['center'] is read only when the fit result carries no centre.
AuxReads(useFitCentre) ==
    {"checkfit", "psf", "background", "isophotefit", "isophoteinit"}
        \cup (IF useFitCentre THEN {} ELSE {"center"})

\* lines 66-82: open(... '.aux', 'w') creates the file, then the lines are
\* written one by one; a missing result (KeyError) or a result without the
\* field that is read (fieldsOk = FALSE) leaves the file as far as written.
WriteAux(i, useFitCentre, fieldsOk) ==
    /\ mainpc = "batch" /\ batch = "running"
    /\ pc[i] = "aux"
    /\ IF AuxReads(useFitCentre) \subseteq DOMAIN results[i] /\ fieldsOk
       THEN /\ files' = [files EXCEPT ![i].aux = "complete"]
            /\ pc' = [pc EXCEPT ![i] = "prof"]
            /\ UNCHANGED batch
       ELSE /\ files' = [files EXCEPT ![i].aux = "partial"]
            /\ pc' = [pc EXCEPT ![i] = "raised"]
            /\ batch' = Propagate
    /\ UNCHANGED <<pipeline_functions, pipeline_steps, mainpc, n_procs,
                   dat, step, results, called, res, errlog>>
    /\ UNCHANGED <<growvars, ellipvars, confvars>>

\* lines 85-91: the .prof file
WriteProfile(i, fieldsOk) ==
    /\ mainpc = "batch" /\ batch = "running"
    /\ pc[i] = "prof"
    /\ IF "isophoteextract" \in DOMAIN results[i] /\ fieldsOk
       THEN /\ files' = [files EXCEPT ![i].prof = "complete"]
            /\ pc' = [pc EXCEPT ![i] = "mask"]
            /\ UNCHANGED batch
       ELSE /\ files' = [files EXCEPT ![i].prof = "partial"]
            /\ pc' = [pc EXCEPT ![i] = "raised"]
            /\ batch' = Propagate
    /\ UNCHANGED <<pipeline_functions, pipeline_steps, mainpc, n_procs,
                   dat, step, results, called, res, errlog>>
    /\ UNCHANGED <<growvars, ellipvars, confvars>>

\* lines 94-108 and 160-161: the optional mask file, then Process_Image logs
\* completion and returns 0.  results['starmask'] is read first.
WriteMaskAndReturn(i, savemask) ==
    /\ mainpc = "batch" /\ batch = "running"
    /\ pc[i] = "mask"
    /\ IF "starmask" \in DOMAIN results[i]
       THEN /\ files' = [files EXCEPT ![i].mask = savemask]
            /\ res' = [res EXCEPT ![i] = 0]
            /\ pc' = [pc EXCEPT ![i] = "returned"]
            /\ UNCHANGED batch
       ELSE /\ pc' = [pc EXCEPT ![i] = "raised"]
            /\ batch' = Propagate
            /\ UNCHANGED <<files, res>>
    /\ UNCHANGED <<pipeline_functions, pipeline_steps, mainpc, n_procs,
                   dat, step, results, called, errlog>>
    /\ UNCHANGED <<growvars, ellipvars, confvars>>

\* ------------------------------------------------------------------------
\* Process_List: the end of the batch
\* ------------------------------------------------------------------------
\* lines 208-211: pool.starmap re-raises a worker's exception in the parent;
\* leaving the with block terminates the pool, so tasks not yet finished are
\* dropped where they are.  When the parent sees the exception depends on the
\* Python version (at once, or after the other tasks), hence any moment after
\* the failure.
PoolRaise ==
    /\ mainpc = "batch" /\ batch = "running"
    /\ n_procs > 1
    /\ \E i \in Images : pc[i] = "raised"
    /\ batch' = "raised"
    /\ UNCHANGED <<pipeline_functions, pipeline_steps, mainpc, n_procs,
                   pc, dat, step, results, called, files, res, errlog>>
    /\ UNCHANGED <<growvars, ellipvars, confvars>>

\* lines 216-219: every Process_Image returned; res is the list of codes
Process_List_Return ==
    /\ mainpc = "batch" /\ batch = "running"
    /\ \A i \in Images : pc[i] = "returned"
    /\ batch' = "returned"
    /\ mainpc' = "finished"
    /\ UNCHANGED <<pipeline_functions, pipeline_steps, n_procs,
                   pc, dat, step, results, called, files, res, errlog>>
    /\ UNCHANGED <<growvars, ellipvars, confvars>>

\* The caller of Process_List sees the exception.
Process_List_Raise ==
    /\ mainpc = "batch" /\ batch = "raised"
    /\ mainpc' = "finished"
    /\ UNCHANGED <<pipeline_functions, pipeline_steps, n_procs, batch,
                   pc, dat, step, results, called, files, res, errlog>>
    /\ UNCHANGED <<growvars, ellipvars, confvars>>

Next ==
    \/ \E f \in FunctionUpdates, s \in StepUpdates : UpdatePipeline(f, s)
    \/ \E np \in 1..MaxProcs : Process_List_Call(np)
    \/ \E i \in Images : Start(i)
    \/ \E i \in Images, d \in ImageFiles : ReadImage(i, d)
    \/ \E i \in Images, ok \in BOOLEAN : RunStep(i, ok)
    \/ \E i \in Images : CallWriteProf(i)
    \/ \E i \in Images, c \in BOOLEAN, ok \in BOOLEAN : WriteAux(i, c, ok)
    \/ \E i \in Images, ok \in BOOLEAN : WriteProfile(i, ok)
    \/ \E i \in Images, m \in BOOLEAN : WriteMaskAndReturn(i, m)
    \/ PoolRaise
    \/ Process_List_Return
    \/ Process_List_Raise

Spec == Init /\ [][Next]_vars

\* ------------------------------------------------------------------------
\* Properties of the pipeline (checked under Spec)
\* ------------------------------------------------------------------------
Failed(i) == pc[i] = "raised"

\* C2: an error raised while one image is processed does not abort the batch:
\* Process_List does not raise, and when it ends every image has a result code.
C2_FailureIsolated ==
    (\E i \in Images : Failed(i)) =>
        /\ batch # "raised"
        /\ (mainpc = "finished" => \A j \in Images : res[j] \in {0, 1})

AllStepsDone(i) ==
    /\ step[i] = Len(pipeline_steps) + 1
    /\ called[i] = [j \in 1..Len(pipeline_steps) |-> j]
    /\ \A j \in 1..Len(pipeline_steps) : pipeline_steps[j] \in DOMAIN results[i]

\* C4: WriteProf is called only after every step has run and stored its
\* result, 0 is returned only after WriteProf has finished, and in every other
\* outcome (return code 1, or an exception) no output file exists for the image.
C4_ProfileAllOrNothing ==
    \A i \in Images :
        /\ (pc[i] \in {"aux", "prof", "mask"} \/ files[i] # NoFiles) => AllStepsDone(i)
        /\ res[i] = 0 => (files[i].aux = "complete" /\ files[i].prof = "complete")
        /\ (pc[i] \in {"returned", "raised"} /\ res[i] # 0) => files[i] = NoFiles

\* The pixels of d within 10 rows and 10 columns of the image centre.
NearCentre(d) ==
    {p \in d.nz : /\ p[1] - (d.rows \div 2) \in (-10)..10
                  /\ p[2] - (d.cols \div 2) \in (-10)..10}

DataError(i) ==
    /\ pc[i] \notin {"idle", "read"}
    /\ (~dat[i].readable \/ NearCentre(dat[i]) = {})

\* C5: an image that cannot be read, or whose block around the centre is all
\* zero, makes Process_Image log one error and return 1 with no step run and
\* no file written; the batch goes on and the next image can be started.
C5_DataErrorReturnsOne ==
    \A i \in Images : DataError(i) =>
        /\ pc[i] = "returned" /\ res[i] = 1 /\ errlog[i] = 1
        /\ called[i] = <<>> /\ results[i] = EmptyMap /\ files[i] = NoFiles
        /\ (batch = "running" /\ i < NImg /\ pc[i + 1] = "idle") => ENABLED Start(i + 1)

C5_Witness ==
    \E i \in Images :
        /\ i < NImg /\ DataError(i) /\ dat[i].readable /\ dat[i].nz # {}
        /\ pc[i] = "returned" /\ pc[i + 1] = "steps" /\ step[i + 1] > 1

\* In image i's run, every call of step b comes after a call of step a.
RunsBefore(i, a, b) ==
    \A m \in 1..Len(called[i]) :
        pipeline_steps[called[i][m]] = b =>
            \E l \in 1..(m - 1) : pipeline_steps[called[i][l]] = a

\* The step results Isophote_Initialize_CircFit reads: the PSF width, the
\* background level and noise, and the centre.
InitializerInputs == {"psf", "background", "center"}

ConsumersFed(i) ==
    \A a \in InitializerInputs : RunsBefore(i, a, "isophoteinit")

\* C6 as stated: in the default pipeline checkfit runs before isophoteextract
\* (order initializer, refiner, checker, extractor) and no stage runs before a
\* stage whose output it consumes.
C6_CheckerBeforeExtractor ==
    \A i \in Images : pipeline_steps = DefaultSteps =>
        /\ RunsBefore(i, "isophoteinit", "isophotefit")
        /\ RunsBefore(i, "isophotefit", "checkfit")
        /\ RunsBefore(i, "checkfit", "isophoteextract")
        /\ ConsumersFed(i)

\* C6 amended: in the default pipeline the order is initializer, refiner,
\* extractor, checker (isophoteextract runs before checkfit), and the
\* initializer runs after the background, psf and center steps it consumes.
C6_ExtractorBeforeChecker ==
    \A i \in Images : pipeline_steps = DefaultSteps =>
        /\ RunsBefore(i, "isophoteinit", "isophotefit")
        /\ RunsBefore(i, "isophotefit", "isophoteextract")
        /\ RunsBefore(i, "isophoteextract", "checkfit")
        /\ ConsumersFed(i)

C6_Witness ==
    \E i \in Images :
        /\ pipeline_steps = DefaultSteps
        /\ \E m \in 1..Len(called[i]) : pipeline_steps[called[i][m]] = "checkfit"
        /\ pc[i] = "returned" /\ res[i] = 0

InLoop(i) == pc[i] = "steps" /\ step[i] <= Len(pipeline_steps)

LatestBefore(n, k) ==
    CHOOSE j \in 1..(k - 1) :
        /\ pipeline_steps[j] = n
        /\ \A l \in (j + 1)..(k - 1) : pipeline_steps[l] # n

RECURSIVE Pow(_, _)
Pow(b, e) == IF e = 0 THEN 1 ELSE b * Pow(b, e - 1)

\* Radii are exact fixed-point numbers: one pixel is 2 * Scale units, so that
\* psf/2, len(IMG)/2 and up to MaxSteps multiplications by 1.2 are all exact.
Scale == Pow(5, MaxSteps)

\* line 105: results['psf fwhm']/2
StartRadius(psf) == psf * Scale

\* line 110: len(IMG)/2
HalfRows(n) == n * Scale

\* line 111: circ_ellipse_radii[-1]*(1+0.2)
Grow(r) == (r \div 5) * 6

Last(q) == q[Len(q)]

\* line 115: np.abs(coefs[2]) > np.abs(coefs[1]) and np.abs(coefs[2]) > np.abs(coefs[3])
Qualifies(c) == c[2] > c[1] /\ c[2] > c[3]

NoiseMultiple == 3
MinRadii == 4

StopRule_threeRadii(q80, radii) == q80 < NoiseMultiple * bgnoise /\ Len(radii) > MinRadii - 1

\* line 118: np.quantile(isovals[0], 0.8) < 3*noise and len(circ_ellipse_radii) > 4
StopRule(q80, radii) == q80 < NoiseMultiple * bgnoise /\ Len(radii) > MinRadii

\* The inputs one sample can produce.  The flux percentile is taken just below
\* and exactly at the stop threshold; the harmonic magnitudes are one
\* dominant 2nd harmonic and the two ties.
FluxLevels == {NoiseMultiple * bgnoise - 1, NoiseMultiple * bgnoise}
Magnitudes == {<<0, 1, 0>>, <<1, 1, 0>>, <<0, 1, 1>>}

InitGrow ==
    /\ PipeIdle /\ EllipIdle /\ ConfIdle
    /\ psf_fwhm \in 0..MaxPSF
    /\ nrows \in 1..MaxRows
    /\ bgnoise \in 0..MaxNoise
    /\ circ_ellipse_radii = <<StartRadius(psf_fwhm)>>
    /\ allphase = <<>> /\ phasekeep = <<>> /\ fluxq = <<>> /\ coefs = <<>>
    /\ ipc = "grow" /\ stop = "" /\ phaseSrc = <<>>

LoopCondition == Last(circ_ellipse_radii) < HalfRows(nrows)

\* lines 110-119: one pass of the while loop.  A sample is recorded as its
\* number and the radius it was taken at.
GrowStep(q80, c) ==
    /\ ipc = "grow"
    /\ LoopCondition
    /\ Len(allphase) < MaxSteps
    /\ LET r == Grow(Last(circ_ellipse_radii))
           radii == Append(circ_ellipse_radii, r)
           sample == [n |-> Len(allphase) + 1, r |-> r]
       IN  /\ circ_ellipse_radii' = radii
           /\ allphase' = Append(allphase, sample)
           /\ phasekeep' = IF Qualifies(c) THEN Append(phasekeep, sample) ELSE phasekeep
           /\ fluxq' = Append(fluxq, q80)
           /\ coefs' = c
           /\ IF StopRule(q80, radii)
              THEN ipc' = "phase" /\ stop' = "noise"
              ELSE UNCHANGED <<ipc, stop>>
    /\ UNCHANGED <<psf_fwhm, nrows, bgnoise, phaseSrc>>
    /\ UNCHANGED <<pipevars, ellipvars, confvars>>

\* line 110: the loop condition fails
GrowExit ==
    /\ ipc = "grow"
    /\ ~LoopCondition
    /\ ipc' = "phase" /\ stop' = "edge"
    /\ UNCHANGED <<psf_fwhm, nrows, bgnoise, circ_ellipse_radii, allphase,
                   phasekeep, fluxq, coefs, phaseSrc>>
    /\ UNCHANGED <<pipevars, ellipvars, confvars>>

KeepCount == 5

LastOf_first(q, k) == SubSeq(q, 1, k)

\* q[-k:]
LastOf(q, k) == SubSeq(q, Len(q) - k + 1, Len(q))

\* q[int(len(q)/2):]
OuterHalf(q) == SubSeq(q, (Len(q) \div 2) + 1, Len(q))

\* lines 121-124: the samples whose mean gives the position angle
SelectPhase ==
    /\ ipc = "phase"
    /\ phaseSrc' = IF Len(phasekeep) >= KeepCount
                   THEN LastOf(phasekeep, KeepCount)
                   ELSE OuterHalf(allphase)
    /\ ipc' = "ref"
    /\ UNCHANGED <<psf_fwhm, nrows, bgnoise, circ_ellipse_radii, allphase,
                   phasekeep, fluxq, coefs, stop>>
    /\ UNCHANGED <<pipevars, ellipvars, confvars>>

\* line 130: circ_ellipse_radii[-2] raises IndexError on a one-element list
ReferenceRadius ==
    /\ ipc = "ref"
    /\ ipc' = IF Len(circ_ellipse_radii) < 2 THEN "aborted" ELSE "ellip"
    /\ UNCHANGED <<psf_fwhm, nrows, bgnoise, circ_ellipse_radii, allphase,
                   phasekeep, fluxq, coefs, stop, phaseSrc>>
    /\ UNCHANGED <<pipevars, ellipvars, confvars>>

NextGrow ==
    \/ \E q \in FluxLevels, c \in Magnitudes : GrowStep(q, c)
    \/ GrowExit
    \/ SelectPhase
    \/ ReferenceRadius

SpecGrow == InitGrow /\ [][NextGrow]_vars

\* ------------------------------------------------------------------------
\* Properties of the growth loop (checked under SpecGrow)
\* ------------------------------------------------------------------------
\* C1: for every image size, noise level and PSF width >= 0 the radii are
\* strictly increasing and the loop ends within a bounded number of steps.
C1_GrowthIncreasingAndBounded ==
    /\ \A j, k \in 1..Len(circ_ellipse_radii) :
          j < k => circ_ellipse_radii[j] < circ_ellipse_radii[k]
    /\ (ipc = "grow" /\ Len(allphase) = MaxSteps) => ~LoopCondition

\* C3: without the noise floor the growth ends at half the image size: no
\* sample is taken beyond it, and the initializer does not abort, also when
\* the half size is not larger than the starting radius.
C3_EndsAtHalfImage ==
    /\ \A s \in 1..Len(allphase) : allphase[s].r <= HalfRows(nrows)
    /\ ipc # "aborted"

\* C8: the loop stops on the noise-floor rule exactly at the first sample,
\* from the 4th on, whose 80th flux percentile is below 3 times the noise,
\* and never before 4 radii have been sampled.
C8_NoiseFloorStop ==
    /\ \A s \in 1..Len(fluxq) :
          (fluxq[s] < 3 * bgnoise /\ s >= 4) => (s = Len(fluxq) /\ stop = "noise")
    /\ stop = "noise" =>
          /\ Len(fluxq) >= 4
          /\ fluxq[Len(fluxq)] < 3 * bgnoise
          /\ ipc # "grow"
    /\ Len(fluxq) = Len(circ_ellipse_radii) - 1

C8_Witness ==
    /\ stop = "noise" /\ Len(fluxq) = 5
    /\ fluxq[2] < 3 * bgnoise /\ fluxq[4] >= 3 * bgnoise

PhaseChosen == ipc \in {"ref", "ellip", "aborted"}

\* C10: the position angle comes from exactly the last 5 qualifying samples
\* when at least 5 qualify (2nd harmonic strictly above the 1st and the 3rd),
\* otherwise from the outer half of all samples; both lists are in order of
\* increasing radius and hold sampled radii only.
C10_PhaseSamples ==
    /\ \A s \in 1..Len(allphase) :
          /\ allphase[s].n = s
          /\ allphase[s].r = circ_ellipse_radii[s + 1]
    /\ \A j, k \in 1..Len(phasekeep) :
          j < k => (phasekeep[j].n < phasekeep[k].n /\ phasekeep[j].r <= phasekeep[k].r)
    /\ \A k \in 1..Len(phasekeep) : phasekeep[k] = allphase[phasekeep[k].n]
    /\ allphase # <<>> =>
          ((coefs[2] > coefs[1] /\ coefs[2] > coefs[3])
              <=> (phasekeep # <<>> /\ Last(phasekeep) = Last(allphase)))
    /\ PhaseChosen =>
          IF Len(phasekeep) >= 5
          THEN /\ Len(phaseSrc) = 5
               /\ \A k \in 1..5 : phaseSrc[k] = phasekeep[Len(phasekeep) - 5 + k]
          ELSE /\ Len(phaseSrc) = Len(allphase) - (Len(allphase) \div 2)
               /\ \A k \in 1..Len(phaseSrc) :
                     phaseSrc[k] = allphase[(Len(allphase) \div 2) + k]

C10_Witness ==
    /\ ipc = "ellip" /\ Len(phasekeep) = 6 /\ Len(allphase) = 7
    /\ phaseSrc[1].n = 3

\* The cap MaxSteps only cuts the loop of a zero PSF width, which never ends.
CapUnused == (psf_fwhm > 0 /\ ipc = "grow" /\ LoopCondition) => Len(allphase) < MaxSteps

\* ------------------------------------------------------------------------
\* Isophote_Initialize_CircFit: the ellipticity (lines 126-139, 199)
\* ------------------------------------------------------------------------
GridSize == 15

\* Ellipticities are fixed-point numbers in units of 1/1400.
\* line 127: np.linspace(0.05,0.95,15)
test_ellip == [i \in 1..GridSize |-> 70 + 90 * (i - 1)]

ArgMin_largest(f) ==
    CHOOSE i \in DOMAIN f :
        /\ \A j \in DOMAIN f : f[j] <= f[i]
        /\ \A j \in DOMAIN f : j < i => f[j] < f[i]

\* np.argmin: the first index of the smallest value
ArgMin(f) ==
    CHOOSE i \in DOMAIN f :
        /\ \A j \in DOMAIN f : f[i] <= f[j]
        /\ \A j \in DOMAIN f : j < i => f[j] > f[i]

ChooseEllip_ifNearGrid(success, grid, refined) ==
    IF success /\ refined - grid \in (-90)..90 THEN refined ELSE grid

\* lines 136-138: if res.success: ellip = _x_to_eps(res.x[0])
ChooseEllip(success, grid, refined) == IF success THEN refined ELSE grid

\* The radii a growth loop leaves when the noise floor is never met.
RECURSIVE GrowToEdge(_, _)
GrowToEdge(radii, n) ==
    IF Last(radii) < HalfRows(n) /\ Len(radii) <= MaxSteps
    THEN GrowToEdge(Append(radii, Grow(Last(radii))), n)
    ELSE radii

SamplesOf(radii) == [s \in 1..(Len(radii) - 1) |-> [n |-> s, r |-> radii[s + 1]]]

\* The summed losses of the 15 grid ellipticities: MaxLoss everywhere but at
\* two places.
LossLists ==
    {[i \in 1..GridSize |-> IF i = d1 THEN v1 ELSE IF i = d2 THEN v2 ELSE MaxLoss] :
        d1 \in 1..GridSize, d2 \in 1..GridSize, v1 \in 0..MaxLoss, v2 \in 0..MaxLoss}

\* What _x_to_eps(res.x[0]) can be: a grid value, values between grid values
\* and values outside the grid.
RefinedValues == {14, 70, 200, 700, 1386}

\* The state at line 126 after a growth loop that ran to the edge.
InitEllip ==
    /\ PipeIdle
    /\ psf_fwhm \in 1..MaxPSF
    /\ nrows \in 1..MaxRows
    /\ bgnoise \in 0..MaxNoise
    /\ circ_ellipse_radii = GrowToEdge(<<StartRadius(psf_fwhm)>>, nrows)
    /\ Len(circ_ellipse_radii) >= 2
    /\ allphase = SamplesOf(circ_ellipse_radii)
    /\ phasekeep = <<>>
    /\ fluxq = [s \in 1..Len(allphase) |-> NoiseMultiple * bgnoise]
    /\ coefs = <<1, 1, 0>>
    /\ stop = "edge"
    /\ phaseSrc = OuterHalf(allphase)
    /\ ipc = "ellip"
    /\ EllipIdle /\ ConfIdle

growdata == <<psf_fwhm, nrows, bgnoise, circ_ellipse_radii, allphase, phasekeep,
              fluxq, coefs, stop, phaseSrc>>

\* lines 127-131: the grid search
GridSearch(losses) ==
    /\ ipc = "ellip"
    /\ test_f2' = losses
    /\ ellip' = test_ellip[ArgMin(losses)]
    /\ ipc' = "minimize"
    /\ UNCHANGED <<res_success, res_eps, RR>>
    /\ UNCHANGED <<pipevars, growdata, confvars>>

\* lines 132-135: scipy minimize (Nelder-Mead) started at the grid value
Minimize(success, refined) ==
    /\ ipc = "minimize"
    /\ res_success' = success
    /\ res_eps' = refined
    /\ ipc' = "accept"
    /\ UNCHANGED <<test_f2, ellip, RR>>
    /\ UNCHANGED <<pipevars, growdata, confvars>>

\* lines 136-138: the refined value replaces the grid value
Accept ==
    /\ ipc = "accept"
    /\ ellip' = ChooseEllip(res_success, ellip, res_eps)
    /\ ipc' = "errors"
    /\ UNCHANGED <<test_f2, res_success, res_eps, RR>>
    /\ UNCHANGED <<pipevars, growdata, confvars>>

ErrRadii == 10

\* np.linspace(a, b, n), each value multiplied by n - 1 to stay an integer
Linspace(a, b, n) == [k \in 1..n |-> (n - 1) * a + (k - 1) * (b - a)]

\* results['psf fwhm'] in radius units
PsfWidth(psf) == 2 * StartRadius(psf)

\* circ_ellipse_radii[-2]
RefRadius(radii) == radii[Len(radii) - 1]

\* lines 142-153 and 199: isophotes are sampled at the 10 radii RR from
\* circ_ellipse_radii[-2] - psf to circ_ellipse_radii[-2] + psf, the error
\* bars are computed and the record with 'init ellip': ellip is returned
Return ==
    /\ ipc = "errors"
    /\ RR' = Linspace(RefRadius(circ_ellipse_radii) - PsfWidth(psf_fwhm),
                      RefRadius(circ_ellipse_radii) + PsfWidth(psf_fwhm), ErrRadii)
    /\ ipc' = "done"
    /\ UNCHANGED <<test_f2, ellip, res_success, res_eps>>
    /\ UNCHANGED <<pipevars, growdata, confvars>>

NextEllip ==
    \/ \E losses \in LossLists : GridSearch(losses)
    \/ \E success \in BOOLEAN, refined \in RefinedValues : Minimize(success, refined)
    \/ Accept
    \/ Return

SpecEllip == InitEllip /\ [][NextEllip]_vars

\* ------------------------------------------------------------------------
\* Properties of the ellipticity stage (checked under SpecEllip)
\* ------------------------------------------------------------------------
\* C9: the returned ellipticity is the refined value when the optimizer
\* reports success and otherwise the grid value, one of the 15 grid
\* ellipticities whose summed loss no other grid ellipticity undercuts;
\* nothing else decides the choice.
C9_RefinedOnlyOnSuccess ==
    ipc \in {"errors", "done"} =>
        /\ Len(test_f2) = 15
        /\ res_success => ellip = res_eps
        /\ ~res_success =>
              \E i \in 1..15 :
                  /\ ellip = 70 + 90 * (i - 1)
                  /\ \A j \in 1..15 : test_f2[i] <= test_f2[j]

C9_Witness ==
    /\ ipc = "done" /\ ~res_success
    /\ ellip = test_ellip[7] /\ res_eps = 700
    /\ test_f2[7] < test_f2[6]

\* The radii of the grid search and of the refinement, in tenths of a unit:
\* circ_ellipse_radii[-2]*m for m in np.linspace(0.8,1.2,5) (lines 130, 132).
GridRadii == {RefRadius(circ_ellipse_radii) * m : m \in 8..12}

\* C11: every radius at which an isophote is sampled is >= 0: those of the
\* growth loop, those of the ellipticity search and the 10 radii of the error
\* estimate, from the reference radius minus one PSF width to plus one.
C11_SampledRadiiValid ==
    /\ \A s \in 1..Len(allphase) : allphase[s].r >= 0
    /\ ipc \in {"minimize", "accept", "errors", "done"} => \A r \in GridRadii : r >= 0
    /\ \A k \in 1..Len(RR) : RR[k] >= 0

\* The names some update of FunctionUpdates binds.
NamedInUpdates == UNION {DOMAIN f : f \in FunctionUpdates}

\* C12: after any sequence of UpdatePipeline calls every step name of
\* pipeline_steps is bound in pipeline_functions, Process_Image never looks up
\* an unbound step, and the bindings no update names keep their value.
C12_EveryStepBound ==
    /\ \A j \in 1..Len(pipeline_steps) : pipeline_steps[j] \in DOMAIN pipeline_functions
    /\ \A i \in Images :
          pc[i] = "steps" /\ step[i] <= Len(pipeline_steps)
              => pipeline_steps[step[i]] \in DOMAIN pipeline_functions
    /\ \A n \in (DOMAIN DefaultFunctions) \ NamedInUpdates :
          n \in DOMAIN pipeline_functions /\ pipeline_functions[n] = DefaultFunctions[n]

\* ------------------------------------------------------------------------
\* Process_ConfigFile (lines 221-259)
\* ------------------------------------------------------------------------
\* A process_mode is the sequence of its space-separated words.
ImageModes == {<<"image">>, <<"forced", "image">>}
ListModes == {<<"image", "list">>, <<"forced", "image", "list">>}
Modes == ImageModes \cup ListModes \cup {<<"images">>, <<"forced", "images">>}

\* line 235: 'forced' in c.process_mode, a substring test; none of the words
\* of Modes has 'forced' as a proper part, so it finds the word.
HasForced(mode) == \E k \in 1..Len(mode) : mode[k] = "forced"

\* lines 236-240: the functions of the forced modes
ForcedFunctions ==
    [n \in {"center", "starmask", "isophotefit", "isophoteextract", "checkfit"} |->
        CASE n = "center" -> "Center_Forced"
          [] n = "starmask" -> "Star_Mask_Given"
          [] n = "isophotefit" -> "Isophote_Fit_Forced"
          [] n = "isophoteextract" -> "Isophote_Extract_Forced"
          [] n = "checkfit" -> "Check_Fit_Simple"]

\* The config modules: process_mode, and the optional attributes
\* pipeline_functions and pipeline_steps (EmptyMap, <<>>: attribute absent, the
\* AttributeError of lines 242-249 is swallowed and nothing is updated).
Configs ==
    [mode : Modes,
     functions : {EmptyMap, [n \in {"deblend"} |-> "user_deblend"]},
     steps : {<<>>, StepsCustom}]

\* lines 235-249: the three UpdatePipeline calls, in order
ConfigFunctions(functions, c) ==
    UpdatedFunctions(
        IF HasForced(c.mode) THEN UpdatedFunctions(functions, ForcedFunctions)
        ELSE functions,
        c.functions)

ConfigSteps(steps, c) == UpdatedSteps(steps, c.steps)

\* lines 224-251, common to every mode: import c, update the pipeline
ImportAndUpdate(c) ==
    /\ mainpc = "config" /\ cpc = "idle"
    /\ cfg' = c
    /\ pipeline_functions' = ConfigFunctions(pipeline_functions, c)
    /\ pipeline_steps' = ConfigSteps(pipeline_steps, c)

\* lines 253-254: Process_Image is called on c.image_file
Process_ConfigFile_Image(c) ==
    /\ c.mode \in ImageModes
    /\ ImportAndUpdate(c)
    /\ cpc' = "called"
    /\ mainpc' = "batch" /\ batch' = "running" /\ n_procs' = 1
    /\ UNCHANGED <<pc, dat, step, results, called, files, res, errlog, cret>>
    /\ UNCHANGED <<growvars, ellipvars>>

\* lines 255-256: Process_List is called on c.image_file, n_procs from GetKwargs
Process_ConfigFile_List(c, np) ==
    /\ c.mode \in ListModes
    /\ ImportAndUpdate(c)
    /\ cpc' = "called"
    /\ mainpc' = "batch" /\ batch' = "running" /\ n_procs' = np
    /\ UNCHANGED <<pc, dat, step, results, called, files, res, errlog, cret>>
    /\ UNCHANGED <<growvars, ellipvars>>

\* lines 257-259: logging.error, return 1
Process_ConfigFile_Unrecognized(c) ==
    /\ c.mode \notin ImageModes \cup ListModes
    /\ ImportAndUpdate(c)
    /\ cpc' = "done"
    /\ cret' = [kind |-> "code", code |-> 1]
    /\ mainpc' = "finished"
    /\ UNCHANGED <<n_procs, batch, pc, dat, step, results, called, files, res, errlog>>
    /\ UNCHANGED <<growvars, ellipvars>>

\* The images of the call in progress: image 1 for Process_Image, all of them
\* for Process_List.
InCall(i) == cpc = "called" /\ (cfg.mode \in ImageModes => i = 1)

\* line 161 reached in the Process_Image of line 254
Process_Image_Return ==
    /\ cpc = "called" /\ cfg.mode \in ImageModes
    /\ mainpc = "batch" /\ batch = "running"
    /\ pc[1] = "returned"
    /\ batch' = "returned"
    /\ mainpc' = "finished"
    /\ UNCHANGED <<pipeline_functions, pipeline_steps, n_procs,
                   pc, dat, step, results, called, files, res, errlog>>
    /\ UNCHANGED <<growvars, ellipvars, confvars>>

\* lines 254, 256: what the call returned is returned; its exception is not caught
Process_ConfigFile_Return ==
    /\ cpc = "called" /\ mainpc = "finished"
    /\ cpc' = "done"
    /\ cret' = IF batch = "raised" THEN [kind |-> "raised", code |-> -1]
               ELSE IF cfg.mode \in ImageModes THEN [kind |-> "code", code |-> res[1]]
               ELSE [kind |-> "list", code |-> -1]
    /\ UNCHANGED <<pipevars, growvars, ellipvars, cfg>>

Fresh == PipeIdle /\ GrowIdle /\ EllipIdle /\ ConfIdle

NextConfig ==
    \/ \E c \in Configs : Process_ConfigFile_Image(c)
    \/ \E c \in Configs, np \in 1..MaxProcs : Process_ConfigFile_List(c, np)
    \/ \E c \in Configs : Process_ConfigFile_Unrecognized(c)
    \/ \E i \in Images : InCall(i) /\ Start(i)
    \/ \E i \in Images, d \in ImageFiles : InCall(i) /\ ReadImage(i, d)
    \/ \E i \in Images, ok \in BOOLEAN : InCall(i) /\ RunStep(i, ok)
    \/ \E i \in Images : InCall(i) /\ CallWriteProf(i)
    \/ \E i \in Images, c \in BOOLEAN, ok \in BOOLEAN : InCall(i) /\ WriteAux(i, c, ok)
    \/ \E i \in Images, ok \in BOOLEAN : InCall(i) /\ WriteProfile(i, ok)
    \/ \E i \in Images, m \in BOOLEAN : InCall(i) /\ WriteMaskAndReturn(i, m)
    \/ cpc = "called" /\ PoolRaise
    \/ cpc = "called" /\ cfg.mode \in ListModes /\ Process_List_Return
    \/ cpc = "called" /\ Process_List_Raise
    \/ Process_Image_Return
    \/ Process_ConfigFile_Return

SpecConfig == Fresh /\ [][NextConfig]_vars

NoImageProcessed ==
    \A i \in Images :
        /\ pc[i] = "idle" /\ dat[i] = Unread /\ called[i] = <<>>
        /\ files[i] = NoFiles /\ res[i] = -1

Unrecognized == cpc = "done" /\ cfg.mode \notin ImageModes \cup ListModes

\* C13: given a process_mode that is none of 'image', 'image list',
\* 'forced image', 'forced image list', Process_ConfigFile returns 1, processes
\* no image and leaves pipeline_functions and pipeline_steps as they were
\* before the call (those of the freshly constructed object).
C13_UnrecognizedModeLeavesPipeline ==
    Unrecognized =>
        /\ cret = [kind |-> "code", code |-> 1]
        /\ NoImageProcessed
        /\ pipeline_functions = DefaultFunctions
        /\ pipeline_steps = DefaultSteps

====
